---- MODULE Spec2Model ----
(***************************************************************************)
(* The streaming completion pipeline of core/llm/index.ts (BaseLLM):       *)
(* complete, streamComplete, chat and streamChat, each call routed either  *)
(* directly to the provider transport or through the host (IDE) stream,    *)
(* and the constructor of BaseLLM with the template autodetection it uses. *)
(* Text is modelled by TLA+ strings, a stream by a sequence of chunks.     *)
(***************************************************************************)
EXTENDS Naturals, Sequences, FiniteSets, TLC

(***************************************************************************)
(* Bounds of the model.                                                    *)
(***************************************************************************)
MaxChunks == 2

MaxNodes == 2

MaxChildren == 2

CallIds == {1, 2}

ChunkValues == {"a", "bc"}

Ops == {"complete", "streamComplete", "chat", "streamChat"}

Ides == {"none", "vscode", "jetbrains"}

ErrTransport == "transport error"

ErrConfig == "You must either implement templateMessages or _streamChat"

RECURSIVE SeqsUpTo(_)
SeqsUpTo(n) ==
  IF n = 0 THEN {<<>>}
  ELSE LET shorter == SeqsUpTo(n - 1)
       IN shorter \cup {Append(s, v) : s \in {t \in shorter : Len(t) = n - 1},
                                       v \in ChunkValues}

Streams == SeqsUpTo(MaxChunks)

RECURSIVE Flatten(_)
Flatten(s) == IF s = <<>> THEN "" ELSE Head(s) \o Flatten(Tail(s))

IsPrefix(s, t) == Len(s) <= Len(t) /\ SubSeq(t, 1, Len(s)) = s

VARIABLES
  op,          \* the public operation each call is
  ide,         \* the execution context each call sees (window.ide)
  llm,         \* the instance configuration each call runs on
  stream,      \* the fragments the underlying stream of the call emits
  fails,       \* whether that stream raises an error after its fragments
  options,     \* the caller's options object of each call
  pc,          \* where each call is
  path,        \* the routing decision of each call
  routed,      \* how many times routing was decided
  completionOptions, \* the call-local merged completion options
  log,         \* the call-local log flag
  raw,         \* the call-local raw flag
  prompt,      \* the call-local prompt
  completion,  \* the call-local accumulated completion
  chatAcc,     \* the accumulation of chat()
  tr,          \* the underlying stream: kind, started, pos, cleanups
  yielded,     \* what the generator has yielded so far
  result,      \* what the call returned or threw
  sink,        \* the logging sink (writeLog)
  console,     \* what was written with console.log
  handed,      \* what the call handed to its transport or to the host
  hooked,      \* the invocations of the request hook (llmRequestHook)
  llmOptions,  \* the options a constructor is given (LLMOptions)
  built,       \* the fields of the instance the constructor has set
  editorState, \* the content of the editor (JSONContent)
  resolved     \* what resolveEditorContent returned or threw

construction == <<llmOptions, built>>

editor == <<editorState, resolved>>

inputs == <<op, ide, llm, stream, fails, construction, editor>>

locals == <<completionOptions, log, raw, prompt, completion, chatAcc>>

wire == <<handed, hooked>>

vars == <<op, ide, llm, stream, fails, options, pc, path, routed,
          completionOptions, log, raw, prompt, completion, chatAcc, tr,
          yielded, result, sink, console, handed, hooked, llmOptions, built,
          editorState, resolved>>

(***************************************************************************)
(* Values.                                                                 *)
(***************************************************************************)
\* A prompt: where it comes from, the form it was in when it was cut to the
\* token budget ("no": not cut), the form it is in, and whether the system
\* message of the instance is part of it.
NoPrompt == [src |-> "none", pruned |-> "no", form |-> "none", sys |-> FALSE]

UserPrompt == [src |-> "prompt", pruned |-> "no", form |-> "raw", sys |-> FALSE]

UserMessages ==
  [src |-> "messages", pruned |-> "no", form |-> "structured", sys |-> FALSE]

NoOptions == [model |-> "undef"]

NotHanded == [to |-> "none", prompt |-> NoPrompt, options |-> NoOptions]

NoTransport == [kind |-> "none", started |-> 0, pos |-> 0, cleanups |-> 0]

NoResult ==
  [kind |-> "none", prompt |-> NoPrompt, completion |-> "", role |-> "",
   error |-> ""]

Returned(p, text, role) ==
  [kind |-> "return", prompt |-> p, completion |-> text, role |-> role,
   error |-> ""]

Thrown(e) ==
  [kind |-> "throw", prompt |-> NoPrompt, completion |-> "", role |-> "",
   error |-> e]

IsStreaming(o) == o \in {"streamComplete", "streamChat"}

IsChat(o) == o \in {"chat", "streamChat"}

(***************************************************************************)
(* Collaborators outside the shown source: token budget, the rendering of  *)
(* a template, the provider transport and the host stream as generators.   *)
(***************************************************************************)
pruneRawPromptFromTop(p) == [p EXCEPT !.pruned = p.form]

compileChatMessages(m, systemMessage) ==
  [m EXCEPT !.pruned = m.form, !.sys = systemMessage]

\* A key-wise override into a copy of first; a key that second does not hold
\* ("undef") is left as it is in first.
mergeJson(first, second) ==
  LET held == {k \in DOMAIN second : second[k] # "undef"}
  IN [k \in DOMAIN first \cup held |->
        IF k \in held THEN second[k] ELSE first[k]]

templateMessages(m) == [m EXCEPT !.form = "templated"]

\* A generator is started by its first next().
GeneratorStart(kind) ==
  [kind |-> kind, started |-> 1, pos |-> 0, cleanups |-> 0]

\* A generator that yields its next value.
GeneratorYield(t) == [t EXCEPT !.pos = @ + 1]

\* A generator that finishes, throws or is told to return runs its cleanup.
GeneratorRelease(t) == [t EXCEPT !.cleanups = @ + 1]

\* The fragment a native chat transport yields for a piece of text.
NativeFragment(text) == [role |-> "assistant", content |-> text]

(***************************************************************************)
(* BaseLLM.                                                                *)
(***************************************************************************)
_shouldRequestDirectly(i) == IF i = "none" THEN TRUE ELSE i # "vscode"

ParsedLog(o) == IF o.log = "undef" THEN TRUE ELSE o.log = "true"

ParsedRaw(o) == IF o.raw = "undef" THEN FALSE ELSE o.raw = "true"

\* delete options.log; delete options.raw
DeleteFlags(o) == [o EXCEPT !.log = "undef", !.raw = "undef"]

_getSystemMessage(l) == l.systemMessage

\* msgs = [{ role: "user", content: prompt }], the system message put in
\* front when there is one, rendered by the template of the instance.
_templatePromptLikeMessages(l, p) ==
  IF ~l.templateMessages THEN p
  ELSE templateMessages([p EXCEPT !.sys = _getSystemMessage(l)])

_formatChatMessages(m) == [m EXCEPT !.form = "formatted"]

\* A pipeline that renders first and cuts the rendering to the budget.
CompletePromptRenderedFirst(l, isRaw) ==
  IF isRaw THEN pruneRawPromptFromTop(UserPrompt)
  ELSE pruneRawPromptFromTop(_templatePromptLikeMessages(l, UserPrompt))

\* prompt = pruneRawPromptFromTop(...); if (!raw) prompt = template(prompt)
CompletePrompt(l, isRaw) ==
  IF isRaw THEN pruneRawPromptFromTop(UserPrompt)
  ELSE _templatePromptLikeMessages(l, pruneRawPromptFromTop(UserPrompt))

_compileChatMessages(l, m) == compileChatMessages(m, l.systemMessage)

ChatPrompt(l) ==
  IF l.templateMessages
  THEN templateMessages(_compileChatMessages(l, UserMessages))
  ELSE _formatChatMessages(_compileChatMessages(l, UserMessages))

\* What the host ends its stream with: the host runs the direct pipeline.
HostReturn(c) ==
  [prompt |-> IF IsChat(op[c]) THEN ChatPrompt(llm[c])
              ELSE CompletePrompt(llm[c], options[c].raw = "true"),
   completion |-> Flatten(stream[c])]

\* An instance that keeps the merged options as its defaults.
_parseCompletionOptionsStoring(l, o) ==
  [completionOptions |-> mergeJson(l.completionOptions, DeleteFlags(o)),
   log |-> ParsedLog(o), raw |-> ParsedRaw(o), options |-> DeleteFlags(o),
   this |-> [l EXCEPT !.completionOptions =
                        mergeJson(l.completionOptions, DeleteFlags(o))]]

\* The merged options, the two flags, the options object and the instance
\* as the call leaves them.
_parseCompletionOptions(l, o) ==
  [completionOptions |-> mergeJson(l.completionOptions, DeleteFlags(o)),
   log |-> ParsedLog(o), raw |-> ParsedRaw(o), options |-> DeleteFlags(o),
   this |-> l]

\* What a direct call hands to its transport.
TransportPrompt(o, l, p) ==
  IF IsChat(o) /\ ~l.templateMessages
  THEN _compileChatMessages(l, UserMessages) ELSE p

\* A pipeline that skips the request log.
LogsRequestSkipped(l, isLog) == FALSE

\* if (log) { if (this.writeLog) ... } before the transport is started
LogsRequest(l, isLog) == isLog /\ l.writeLog

\* A pipeline that invokes the hook whatever the log flag is.
HooksRequestAlways(l, isLog) == l.llmRequestHook

\* if (log) { ...; if (this.llmRequestHook) ... }
HooksRequest(l, isLog) == isLog /\ l.llmRequestHook

\* this.llmRequestHook(completionOptions.model, prompt)
HookCall(c, model, p) == [call |-> c, model |-> model, prompt |-> p]

\* if (log && this.writeLog) after the transport is drained
LogsCompletion(l, isLog) == isLog /\ l.writeLog

RequestEntry(c, p, o) ==
  [call |-> c, kind |-> "request", prompt |-> p, text |-> "", options |-> o]

CompletionEntry(c, text) ==
  [call |-> c, kind |-> "completion", prompt |-> NoPrompt, text |-> text]

\* completion = chunk + completion: the chunk put in front.
AccumulateInFront(acc, c, chunk) == [acc EXCEPT ![c] = chunk \o @]

\* One accumulator held by the instance and shared by its calls.
AccumulateShared(acc, c, chunk) == [d \in DOMAIN acc |-> acc[d] \o chunk]

\* completion += chunk, on the accumulator of the call
Accumulate(acc, c, chunk) == [acc EXCEPT ![c] = @ \o chunk]

\* yield { role: "assistant", content: chunk }
AssistantFragment(chunk) == [role |-> "assistant", content |-> chunk]

\* yield { role: "user", content: next.value }
ProxyFragment(value) == [role |-> "user", content |-> value]

\* A proxy that forwards what the direct path would send.
HostRequestPrepared(o, opts) ==
  [to |-> "host",
   prompt |-> pruneRawPromptFromTop(IF IsChat(o) THEN UserMessages
                                    ELSE UserPrompt),
   options |-> DeleteFlags(opts)]

\* ideRequest / ideStreamRequest(..., { prompt | messages, title,
\* completionOptions: options })
HostRequest(o, opts) ==
  [to |-> "host", prompt |-> IF IsChat(o) THEN UserMessages ELSE UserPrompt,
   options |-> opts]

\* Which transport a direct call streams from.
TransportKind(o, l) ==
  IF IsChat(o) /\ ~l.templateMessages THEN "streamChat" ELSE "streamComplete"

\* A check that lets every chat call through to a transport.
MisconfiguredUnchecked(o, l) == FALSE

\* A chat call on an instance with neither a template nor a native transport.
Misconfigured(o, l) == IsChat(o) /\ ~l.templateMessages /\ ~l.nativeChat

\* What a direct streamChat yields for a chunk of its transport.
DirectFragment(l, chunk) ==
  IF l.templateMessages THEN AssistantFragment(chunk) ELSE NativeFragment(chunk)

\* A loop that leaves the transport's iterator open.
ForAwaitReturnLeavesOpen(t) == t

\* for await (...) { ...; yield chunk } left by the consumer's return():
\* the loop closes the transport's iterator.
ForAwaitReturn(t) == GeneratorRelease(t)

\* while (!next.done) { yield next.value; ... } left by the consumer's
\* return(): nothing is done to the host stream.
ManualLoopReturn(t) == t

\* A pipeline that starts the transport again after an error.
AfterTransportErrorRetry(c) == "prep"

\* Where a direct call goes when its transport raises an error.
AfterTransportError(c) == "failed"

\* A pipeline that neither logs nor returns once its transport is drained.
AfterTransportDoneStalls(c) == "stalled"

\* A pipeline that returns as soon as its transport is drained.
AfterTransportDoneReturns(c) == "done"

\* Where a direct call goes when its transport is drained.
AfterTransportDone(c) == "logging"

\* The error that surfaces when the transport raised e.
Rethrown(e) == e

\* console.log(error) in the catch of streamChat only.
LogsError(o) == IsChat(o)

\* A chat that hands on the role of the fragments of the host.
chatReturnAsUser(text) == Returned(NoPrompt, text, "user")

\* return { role: "assistant", content: completion }
chatReturn(text) == Returned(NoPrompt, text, "assistant")

(***************************************************************************)
(* Strings as JavaScript handles them.                                     *)
(***************************************************************************)
undefined == "undefined"

null == "null"

\* a || b
OrElse(a, b) == IF a \in {undefined, null, ""} THEN b ELSE a

UpperCaseLetters == "ABCDEFGHIJKLMNOPQRSTUVWXYZ"

LowerCaseLetters == "abcdefghijklmnopqrstuvwxyz"

CharAt(str, i) == SubSeq(str, i, i)

toLowerCaseChar(ch) ==
  LET at == {i \in 1..Len(UpperCaseLetters) : CharAt(UpperCaseLetters, i) = ch}
  IN IF at = {} THEN ch ELSE CharAt(LowerCaseLetters, CHOOSE i \in at : TRUE)

RECURSIVE toLowerCase(_)
toLowerCase(str) ==
  IF str = "" THEN ""
  ELSE toLowerCaseChar(CharAt(str, 1)) \o toLowerCase(SubSeq(str, 2, Len(str)))

includes(str, part) ==
  \E i \in 1..(Len(str) + 1 - Len(part)) :
    SubSeq(str, i, i + Len(part) - 1) = part

endsWith(str, part) ==
  /\ Len(part) <= Len(str)
  /\ SubSeq(str, Len(str) + 1 - Len(part), Len(str)) = part

\* str.slice(0, -1)
sliceOffLast(str) == SubSeq(str, 1, Len(str) - 1)

(***************************************************************************)
(* Template families: autodetectTemplateType, autodetectTemplateFunction,  *)
(* autodetectPromptTemplates and the constructor of BaseLLM.               *)
(***************************************************************************)
TemplateTypes ==
  {"llama2", "alpaca", "phi2", "phind", "zephyr", "anthropic", "chatml",
   "deepseek", "openchat", "xwin-coder", "neural-chat", "llava",
   "codellama-70b", "none"}

PROVIDER_HANDLES_TEMPLATING == {"lmstudio", "openai", "ollama", "together"}

\* The names of providers that render their prompts themselves.
SelfTemplated(lower) ==
  \/ includes(lower, "gpt")
  \/ includes(lower, "chat-bison")
  \/ includes(lower, "pplx")
  \/ includes(lower, "gemini")

\* The rules from "llava" on, in the order of the source.
FamilyRules(lower) ==
  IF includes(lower, "llava") THEN "llava"
  ELSE IF includes(lower, "xwin") THEN "xwin-coder"
  ELSE IF includes(lower, "dolphin") THEN "chatml"
  ELSE IF includes(lower, "phi2") THEN "phi2"
  ELSE IF includes(lower, "phind") THEN "phind"
  ELSE IF includes(lower, "llama") THEN "llama2"
  ELSE IF includes(lower, "zephyr") THEN "zephyr"
  ELSE IF includes(lower, "claude") THEN "anthropic"
  ELSE IF includes(lower, "alpaca") \/ includes(lower, "wizard") THEN "alpaca"
  ELSE IF includes(lower, "mistral") THEN "llama2"
  ELSE IF includes(lower, "deepseek") THEN "deepseek"
  ELSE IF includes(lower, "ninja") \/ includes(lower, "openchat")
       THEN "openchat"
  ELSE IF includes(lower, "neural-chat") THEN "neural-chat"
  ELSE "chatml"

\* A detection without the combined rule: the bare "llama" rule decides.
autodetectTemplateTypeBareLlama(model) ==
  LET lower == toLowerCase(model)
  IN IF SelfTemplated(lower) THEN undefined ELSE FamilyRules(lower)

autodetectTemplateType(model) ==
  LET lower == toLowerCase(model)
  IN IF includes(lower, "codellama") /\ includes(lower, "70b")
     THEN "codellama-70b"
     ELSE IF SelfTemplated(lower) THEN undefined
     ELSE FamilyRules(lower)

mapping ==
  [t \in TemplateTypes |->
     CASE t = "llama2" -> "llama2TemplateMessages"
       [] t = "alpaca" -> "templateAlpacaMessages"
       [] t = "phi2" -> "phi2TemplateMessages"
       [] t = "phind" -> "phindTemplateMessages"
       [] t = "zephyr" -> "zephyrTemplateMessages"
       [] t = "anthropic" -> "anthropicTemplateMessages"
       [] t = "chatml" -> "chatmlTemplateMessages"
       [] t = "deepseek" -> "deepseekTemplateMessages"
       [] t = "openchat" -> "openchatTemplateMessages"
       [] t = "xwin-coder" -> "xWinCoderTemplateMessages"
       [] t = "neural-chat" -> "neuralChatTemplateMessages"
       [] t = "llava" -> "llavaTemplateMessages"
       [] t = "codellama-70b" -> "codeLlama70bTemplateMessages"
       [] t = "none" -> null]

\* A resolution that does not look at the provider.
autodetectTemplateFunctionAnyProvider(model, provider, explicitTemplate) ==
  LET templateType == OrElse(explicitTemplate, autodetectTemplateType(model))
  IN IF templateType # undefined THEN mapping[templateType] ELSE null

autodetectTemplateFunction(model, provider, explicitTemplate) ==
  IF explicitTemplate = undefined /\ provider \in PROVIDER_HANDLES_TEMPLATING
  THEN null
  ELSE LET templateType ==
             OrElse(explicitTemplate, autodetectTemplateType(model))
       IN IF templateType # undefined THEN mapping[templateType] ELSE null

NoTemplates == [name \in {} |-> ""]

\* { ...first, ...second }
Spread(first, second) ==
  [k \in DOMAIN first \cup DOMAIN second |->
     IF k \in DOMAIN second THEN second[k] ELSE first[k]]

autodetectPromptTemplates(model, explicitTemplate) ==
  LET templateType == OrElse(explicitTemplate, autodetectTemplateType(model))
      editTemplate ==
        IF templateType = "phind" THEN "phindEditPrompt"
        ELSE IF templateType = "phi2" THEN "simplifiedEditPrompt"
        ELSE IF templateType = "zephyr" THEN "zephyrEditPrompt"
        ELSE IF templateType = "llama2"
             THEN IF includes(model, "mistral") THEN "mistralEditPrompt"
                  ELSE "codellamaEditPrompt"
        ELSE IF templateType = "alpaca" THEN "alpacaEditPrompt"
        ELSE IF templateType = "deepseek" THEN "deepseekEditPrompt"
        ELSE IF templateType = "openchat" THEN "openchatEditPrompt"
        ELSE IF templateType = "xwin-coder" THEN "xWinCoderEditPrompt"
        ELSE IF templateType = "neural-chat" THEN "neuralChatEditPrompt"
        ELSE IF templateType = "codellama-70b" THEN "codeLlama70bEditPrompt"
        ELSE IF templateType # undefined THEN "simplestEditPrompt"
        ELSE null
  IN IF editTemplate # null THEN [name \in {"edit"} |-> editTemplate]
     ELSE NoTemplates

\* The fields the constructor computes from its options, and its local
\* templateType.
constructor(o) ==
  LET templateType == OrElse(o.template, autodetectTemplateType(o.model))
  IN [model |-> o.model,
      templateType |-> templateType,
      promptTemplates |->
        Spread(autodetectPromptTemplates(o.model, templateType),
               o.promptTemplates),
      templateMessages |->
        OrElse(o.templateMessages,
               autodetectTemplateFunction(o.model, o.providerName,
                                          o.template)),
      apiBase |->
        IF o.apiBase # undefined /\ endsWith(o.apiBase, "/")
        THEN sliceOffLast(o.apiBase) ELSE o.apiBase]

\* The pieces model names are put together from: the markers of the rules,
\* in lower case and capitalised, and pieces that are no marker.
NameParts ==
  {"codellama", "70b", "gpt", "chat-bison", "pplx", "gemini", "llava", "xwin",
   "dolphin", "phi2", "phind", "llama", "zephyr", "claude", "alpaca",
   "wizard", "mistral", "deepseek", "ninja", "openchat", "neural-chat",
   "codellama-70b", "GPT", "CodeLlama", "Mistral", "bison", "7b", "-", ""}

ModelNames == {a \o b : a \in NameParts, b \in NameParts}

Providers == {"openai", "anthropic", "free-trial"}

BaseUrls == {undefined, "", "/", "http://h", "http://h/", "http://h//"}

CustomTemplates == {NoTemplates, [name \in {"edit"} |-> "customEditPrompt"]}

\* What constructors are given: every name with every provider and every
\* explicit template, and every base URL with every custom override.
ConstructorOptions ==
  [model : ModelNames, providerName : Providers,
   template : TemplateTypes \cup {undefined}, templateMessages : {undefined},
   promptTemplates : {NoTemplates}, apiBase : {undefined}]
  \cup
  [model : {"codellama-7b"}, providerName : {"anthropic"},
   template : {undefined}, templateMessages : {undefined, "custom"},
   promptTemplates : CustomTemplates, apiBase : BaseUrls]

NoLLMOptions ==
  [model |-> "", providerName |-> "", template |-> undefined,
   templateMessages |-> undefined, promptTemplates |-> NoTemplates,
   apiBase |-> undefined]

NotBuilt ==
  [model |-> undefined, templateType |-> undefined,
   promptTemplates |-> NoTemplates,
   templateMessages |-> undefined, apiBase |-> undefined]

(***************************************************************************)
(* resolveEditorContent of gui/src/components/mainInput/resolveInput.ts.   *)
(* A child of a paragraph is a text, a mention or a slash command; a node  *)
(* of the content is a paragraph, a code block or an image.                *)
(***************************************************************************)
Truthy(v) == v \notin {undefined, null, ""}

TextPart(text) == [type |-> "text", text |-> text, url |-> ""]

ImagePart(url) == [type |-> "imageUrl", text |-> "", url |-> url]

\* parts with text added: joined to the last part when that is a text part,
\* else pushed as a new text part.
AddText(parts, text) ==
  IF parts # <<>> /\ parts[Len(parts)].type = "text"
  THEN [parts EXCEPT ![Len(parts)].text = @ \o "\n" \o text]
  ELSE Append(parts, TextPart(text))

\* One turn of the loop of resolveParagraph.
ParagraphStep(acc, child) ==
  IF child.type = "text" THEN [acc EXCEPT !.text = @ \o child.text]
  ELSE IF child.type = "mention"
  THEN [acc EXCEPT
          !.text = IF child.id # "codebase" THEN @ \o child.label ELSE @,
          !.contextItems = Append(@, child.id)]
  ELSE IF child.type = "slashcommand"
  THEN IF acc.slashCommand = undefined
       THEN [acc EXCEPT !.slashCommand = child.id]
       ELSE [acc EXCEPT !.text = @ \o child.label]
  ELSE acc

RECURSIVE ParagraphLoop(_, _)
ParagraphLoop(acc, children) ==
  IF children = <<>> THEN acc
  ELSE ParagraphLoop(ParagraphStep(acc, Head(children)), Tail(children))

resolveParagraph(p) ==
  ParagraphLoop([text |-> "", contextItems |-> <<>>,
                 slashCommand |-> undefined], p.content)

\* The fence of a code block: three backquotes, written here with quotes.
Fence == "'''"

\* One turn of the first loop of resolveEditorContent.
ContentStep(acc, p) ==
  IF p.type = "paragraph"
  THEN LET r == resolveParagraph(p)
           found == IF Truthy(r.slashCommand) /\ acc.slashCommand = undefined
                    THEN r.slashCommand ELSE acc.slashCommand
       IN IF r.text = "" THEN [acc EXCEPT !.slashCommand = found]
          ELSE [acc EXCEPT !.slashCommand = found,
                           !.parts = AddText(@, r.text),
                           !.contextItemAttrs = @ \o r.contextItems]
  ELSE IF p.type = "codeBlock"
  THEN IF ~p.editing
       THEN [acc EXCEPT
               !.parts = AddText(@, Fence \o p.name \o "\n" \o p.text
                                      \o "\n" \o Fence)]
       ELSE acc
  ELSE IF p.type = "image"
  THEN [acc EXCEPT !.parts = Append(@, ImagePart(p.text))]
  ELSE acc

RECURSIVE ContentLoop(_, _)
ContentLoop(acc, content) ==
  IF content = <<>> THEN acc
  ELSE ContentLoop(ContentStep(acc, Head(content)), Tail(content))

\* The index of the last text part, counted from 1; 0 when there is none
\* (the -1 of the source).
findLastIndex(parts) ==
  LET at == {i \in 1..Len(parts) : parts[i].type = "text"}
  IN IF at = {} THEN 0 ELSE CHOOSE i \in at : \A j \in at : j <= i

ErrType == "TypeError: Cannot read properties of undefined (reading 'text')"

\* What resolveEditorContent returns: the message parts, the slash command
\* put in front of the last text part; or the error it throws.  The context
\* items are kept as the mentions they are resolved from.
resolveEditorContent(content) ==
  LET acc == ContentLoop([parts |-> <<>>, contextItemAttrs |-> <<>>,
                          slashCommand |-> undefined], content)
      lastTextIndex == findLastIndex(acc.parts)
  IN IF ~Truthy(acc.slashCommand)
     THEN [kind |-> "return", parts |-> acc.parts,
           contextItems |-> acc.contextItemAttrs, error |-> ""]
     ELSE IF lastTextIndex = 0
     THEN [kind |-> "throw", parts |-> <<>>, contextItems |-> <<>>,
           error |-> ErrType]
     ELSE [kind |-> "return",
           parts |-> [acc.parts EXCEPT ![lastTextIndex].text =
                        acc.slashCommand \o " " \o @],
           contextItems |-> acc.contextItemAttrs, error |-> ""]

\* The children a paragraph is made of.
Children ==
  {[type |-> "text", text |-> "hi", id |-> "", label |-> ""],
   [type |-> "text", text |-> "", id |-> "", label |-> ""],
   [type |-> "mention", text |-> "", id |-> "a.ts", label |-> "@a.ts"],
   [type |-> "mention", text |-> "", id |-> "codebase", label |-> "@codebase"],
   [type |-> "slashcommand", text |-> "", id |-> "/edit", label |-> "/edit"],
   [type |-> "slashcommand", text |-> "", id |-> "/test", label |-> "/test"]}

RECURSIVE SeqsOver(_, _)
SeqsOver(set, n) ==
  IF n = 0 THEN {<<>>}
  ELSE LET shorter == SeqsOver(set, n - 1)
       IN shorter \cup {Append(q, v) : q \in {t \in shorter : Len(t) = n - 1},
                                       v \in set}

\* The nodes a content is made of.
Nodes ==
  {[type |-> "paragraph", content |-> cs, editing |-> FALSE, name |-> "",
    text |-> ""] : cs \in SeqsOver(Children, MaxChildren)}
  \cup
  {[type |-> "codeBlock", content |-> <<>>, editing |-> e,
    name |-> "a.ts (1-2)", text |-> "x = 1"] : e \in BOOLEAN}
  \cup
  {[type |-> "image", content |-> <<>>, editing |-> FALSE, name |-> "",
    text |-> "data:image/png"]}

EditorStates == SeqsOver(Nodes, MaxNodes)

NoEditorState == <<>>

NotResolved ==
  [kind |-> "none", parts |-> <<>>, contextItems |-> <<>>, error |-> ""]

(***************************************************************************)
(* Initial states: a call is a generator (or a promise) not yet started.   *)
(***************************************************************************)
InstanceModel == "codellama-7b"

OtherModel == "mistral-7b"

Instances ==
  [templateMessages : BOOLEAN, nativeChat : BOOLEAN, writeLog : BOOLEAN,
   llmRequestHook : BOOLEAN, systemMessage : BOOLEAN,
   completionOptions : {[model |-> InstanceModel]}]

OptionObjects ==
  [log : {"undef", "false"}, raw : {"undef", "true"},
   model : {"undef", OtherModel}]

Inputs ==
  [op : Ops, ide : Ides, llm : Instances, options : OptionObjects,
   stream : Streams, fails : BOOLEAN]

\* The inputs of the calls that run concurrently: instances that log, on
\* either path, with a stream "a", "bc", "a", ... that may fail after its
\* first chunk.
ConcurrentInputs ==
  {i \in Inputs :
     /\ i.ide \in {"none", "vscode"}
     /\ i.llm.writeLog
     /\ i.llm.llmRequestHook
     /\ ~i.llm.systemMessage
     /\ i.options.raw = "undef"
     /\ i.options.model = "undef"
     /\ ~(i.llm.templateMessages /\ i.llm.nativeChat)
     /\ (i.ide = "vscode" => i.options.log = "undef" /\ i.llm.templateMessages)
     /\ (~i.llm.templateMessages => i.op = "streamChat")
     /\ \A k \in 1..Len(i.stream) :
          i.stream[k] = IF k % 2 = 1 THEN "a" ELSE "bc"
     /\ (i.fails => Len(i.stream) = 1)}

Absent ==
  [op |-> "complete", ide |-> "none",
   llm |-> [templateMessages |-> FALSE, nativeChat |-> FALSE,
            writeLog |-> FALSE, llmRequestHook |-> FALSE,
            systemMessage |-> FALSE,
            completionOptions |-> [model |-> InstanceModel]],
   options |-> [log |-> "undef", raw |-> "undef", model |-> "undef"],
   stream |-> <<>>, fails |-> FALSE]

InitWith(in, made) ==
  /\ op = [c \in CallIds |-> in[c].op]
  /\ ide = [c \in CallIds |-> in[c].ide]
  /\ llm = [c \in CallIds |-> in[c].llm]
  /\ stream = [c \in CallIds |-> in[c].stream]
  /\ fails = [c \in CallIds |-> in[c].fails]
  /\ options = [c \in CallIds |-> in[c].options]
  /\ pc = [c \in CallIds |-> IF c \in made THEN "init" ELSE "absent"]
  /\ path = [c \in CallIds |-> "none"]
  /\ routed = [c \in CallIds |-> 0]
  /\ completionOptions = [c \in CallIds |-> NoOptions]
  /\ log = [c \in CallIds |-> TRUE]
  /\ raw = [c \in CallIds |-> FALSE]
  /\ prompt = [c \in CallIds |-> NoPrompt]
  /\ completion = [c \in CallIds |-> ""]
  /\ chatAcc = [c \in CallIds |-> ""]
  /\ tr = [c \in CallIds |-> NoTransport]
  /\ yielded = [c \in CallIds |-> <<>>]
  /\ result = [c \in CallIds |-> NoResult]
  /\ sink = <<>>
  /\ console = <<>>
  /\ handed = [c \in CallIds |-> NotHanded]
  /\ hooked = <<>>

\* The calls run on instances taken as constructed, with no editor.
NoConstruction ==
  /\ llmOptions = NoLLMOptions /\ built = NotBuilt
  /\ editorState = NoEditorState /\ resolved = NotResolved

\* One call, over every input.
Init ==
  /\ \E i \in Inputs :
       InitWith([c \in CallIds |-> IF c = 1 THEN i ELSE Absent], {1})
  /\ NoConstruction

\* Two calls at once.
InitConcurrent ==
  /\ \E in \in [CallIds -> ConcurrentInputs] : InitWith(in, CallIds)
  /\ NoConstruction

\* The inputs of the calls whose consumer keeps pulling: every operation on
\* either path, with and without template, native transport and logging
\* sink, over every stream, failing or not.
PullingInputs ==
  {i \in Inputs :
     /\ i.ide \in {"none", "vscode"}
     /\ i.llm.llmRequestHook
     /\ ~i.llm.systemMessage
     /\ i.options.raw = "undef"
     /\ i.options.model = "undef"}

\* One call whose consumer keeps pulling.
InitPulling ==
  /\ \E i \in PullingInputs :
       InitWith([c \in CallIds |-> IF c = 1 THEN i ELSE Absent], {1})
  /\ NoConstruction

\* A call that will be made a second time, with the same arguments and the
\* same options object, once it has ended.
SuccessiveInputs ==
  {i \in Inputs :
     /\ i.ide \in {"none", "vscode"}
     /\ i.llm.llmRequestHook
     /\ ~i.llm.systemMessage
     /\ i.options.model = "undef"}

InitSuccessive ==
  /\ \E i \in SuccessiveInputs : InitWith([c \in CallIds |-> i], {1})
  /\ NoConstruction

\* A constructor about to run, no call made.
InitConstruct ==
  /\ InitWith([c \in CallIds |-> Absent], {})
  /\ llmOptions \in ConstructorOptions
  /\ built = NotBuilt
  /\ editorState = NoEditorState /\ resolved = NotResolved

\* An editor content about to be resolved, no call made.
InitResolve ==
  /\ InitWith([c \in CallIds |-> Absent], {})
  /\ llmOptions = NoLLMOptions /\ built = NotBuilt
  /\ editorState \in EditorStates
  /\ resolved = NotResolved

(***************************************************************************)
(* The steps of a call.                                                    *)
(***************************************************************************)
\* if (!this._shouldRequestDirectly())
Route(c) ==
  /\ pc[c] = "init"
  /\ path' = [path EXCEPT ![c] =
                IF _shouldRequestDirectly(ide[c]) THEN "direct" ELSE "proxy"]
  /\ routed' = [routed EXCEPT ![c] = @ + 1]
  /\ pc' = [pc EXCEPT ![c] = "route"]
  /\ UNCHANGED <<inputs, options, locals, tr, yielded, result, sink, console,
                 wire>>

\* The direct path up to the request log: _parseCompletionOptions, the
\* pruning and the rendering of the prompt, writeLog.
DirectBegin(c) ==
  /\ pc[c] = "route"
  /\ path[c] = "direct"
  /\ LET parsed == _parseCompletionOptions(llm[c], options[c])
         p == IF IsChat(op[c]) THEN ChatPrompt(parsed.this)
              ELSE CompletePrompt(parsed.this, parsed.raw)
     IN /\ completionOptions' =
             [completionOptions EXCEPT ![c] = parsed.completionOptions]
        /\ log' = [log EXCEPT ![c] = parsed.log]
        /\ raw' = [raw EXCEPT ![c] = parsed.raw]
        /\ options' = [options EXCEPT ![c] = parsed.options]
        /\ llm' = [llm EXCEPT ![c] = parsed.this]
        /\ prompt' = [prompt EXCEPT ![c] = p]
        /\ sink' = IF LogsRequest(parsed.this, parsed.log)
                   THEN Append(sink,
                               RequestEntry(c, p, parsed.completionOptions))
                   ELSE sink
        /\ hooked' = IF HooksRequest(parsed.this, parsed.log)
                     THEN Append(hooked,
                                 HookCall(c, parsed.completionOptions.model, p))
                     ELSE hooked
  /\ pc' = [pc EXCEPT ![c] = "prep"]
  /\ UNCHANGED <<op, ide, stream, fails, construction, editor, path, routed,
                 completion, chatAcc, tr, yielded, result, console, handed>>

\* let completion = ""; the first next() of the transport's generator.
OpenTransport(c) ==
  /\ pc[c] = "prep"
  /\ ~Misconfigured(op[c], llm[c])
  /\ tr' = [tr EXCEPT ![c] =
              [GeneratorStart(TransportKind(op[c], llm[c]))
                 EXCEPT !.started = tr[c].started + 1]]
  /\ handed' = [handed EXCEPT ![c] =
                  [to |-> TransportKind(op[c], llm[c]),
                   prompt |-> TransportPrompt(op[c], llm[c], prompt[c]),
                   options |-> completionOptions[c]]]
  /\ completion' = [completion EXCEPT ![c] = ""]
  /\ pc' = [pc EXCEPT ![c] = "transportWait"]
  /\ UNCHANGED <<inputs, options, path, routed, completionOptions, log, raw,
                 prompt, chatAcc, yielded, result, sink, console, hooked>>

\* BaseLLM._streamChat without templateMessages throws; streamChat catches,
\* logs and rethrows.
MissingChatTransport(c) ==
  /\ pc[c] = "prep"
  /\ Misconfigured(op[c], llm[c])
  /\ console' = Append(console, [call |-> c, error |-> ErrConfig])
  /\ result' = [result EXCEPT ![c] = Thrown(ErrConfig)]
  /\ pc' = [pc EXCEPT ![c] = "failed"]
  /\ UNCHANGED <<inputs, options, path, routed, locals, tr, yielded, sink,
                 wire>>

\* The transport yields a chunk: completion += chunk; yield chunk.
TransportChunk(c) ==
  /\ pc[c] = "transportWait"
  /\ tr[c].pos < Len(stream[c])
  /\ LET chunk == stream[c][tr[c].pos + 1]
     IN /\ tr' = [tr EXCEPT ![c] = GeneratorYield(@)]
        /\ completion' = Accumulate(completion, c, chunk)
        /\ yielded' =
             [yielded EXCEPT ![c] =
                IF op[c] = "complete" THEN @
                ELSE IF op[c] = "streamComplete" THEN Append(@, chunk)
                ELSE Append(@, DirectFragment(llm[c], chunk))]
        /\ chatAcc' = IF op[c] = "chat"
                      THEN Accumulate(chatAcc, c,
                                      DirectFragment(llm[c], chunk).content)
                      ELSE chatAcc
  /\ pc' = [pc EXCEPT ![c] =
              IF IsStreaming(op[c]) THEN "suspended" ELSE "transportWait"]
  /\ UNCHANGED <<inputs, options, path, routed, completionOptions, log, raw,
                 prompt, result, sink, console, wire>>

\* The transport is drained: this._logTokensGenerated(...).
TransportDone(c) ==
  /\ pc[c] = "transportWait"
  /\ tr[c].pos = Len(stream[c])
  /\ ~fails[c]
  /\ tr' = [tr EXCEPT ![c] = GeneratorRelease(@)]
  /\ pc' = [pc EXCEPT ![c] = AfterTransportDone(c)]
  /\ UNCHANGED <<inputs, options, path, routed, locals, yielded, result, sink,
                 console, wire>>

\* The transport raises an error.
TransportError(c) ==
  /\ pc[c] = "transportWait"
  /\ tr[c].pos = Len(stream[c])
  /\ fails[c]
  /\ tr' = [tr EXCEPT ![c] = GeneratorRelease(@)]
  /\ console' = IF LogsError(op[c])
                THEN Append(console, [call |-> c, error |-> ErrTransport])
                ELSE console
  /\ pc' = [pc EXCEPT ![c] = AfterTransportError(c)]
  /\ result' = [result EXCEPT ![c] =
                  IF AfterTransportError(c) = "failed"
                  THEN Thrown(Rethrown(ErrTransport)) ELSE @]
  /\ UNCHANGED <<inputs, options, path, routed, locals, yielded, sink, wire>>

\* The completion log and the return value.
WriteCompletionLog(c) ==
  /\ pc[c] = "logging"
  /\ sink' = IF LogsCompletion(llm[c], log[c])
             THEN Append(sink, CompletionEntry(c, completion[c]))
             ELSE sink
  /\ result' = [result EXCEPT ![c] =
                  IF op[c] = "complete"
                  THEN Returned(NoPrompt, completion[c], "")
                  ELSE IF op[c] = "chat"
                  THEN chatReturn(chatAcc[c])
                  ELSE Returned(prompt[c], completion[c], "")]
  /\ pc' = [pc EXCEPT ![c] = "done"]
  /\ UNCHANGED <<inputs, options, path, routed, locals, tr, yielded, console,
                 wire>>

\* The consumer asks for the next fragment.
Pull(c) ==
  /\ pc[c] = "suspended"
  /\ pc' = [pc EXCEPT ![c] =
              IF path[c] = "direct" THEN "transportWait" ELSE "hostWait"]
  /\ UNCHANGED <<inputs, options, path, routed, locals, tr, yielded, result,
                 sink, console, wire>>

\* The consumer stops: return() on the generator, not yet started or
\* suspended at a yield.
Cancel(c) ==
  /\ IsStreaming(op[c])
  /\ pc[c] \in {"init", "suspended"}
  /\ tr' = [tr EXCEPT ![c] =
              IF pc[c] = "init" THEN @
              ELSE IF path[c] = "direct" THEN ForAwaitReturn(@)
              ELSE ManualLoopReturn(@)]
  /\ pc' = [pc EXCEPT ![c] = "closed"]
  /\ UNCHANGED <<inputs, options, path, routed, locals, yielded, result, sink,
                 console, wire>>

\* ideStreamRequest(...) and its first next(); ideRequest(...) for complete.
ProxyBegin(c) ==
  /\ pc[c] = "route"
  /\ path[c] = "proxy"
  /\ tr' = [tr EXCEPT ![c] =
              IF op[c] = "complete" THEN @ ELSE GeneratorStart("host")]
  /\ handed' = [handed EXCEPT ![c] = HostRequest(op[c], options[c])]
  /\ pc' = [pc EXCEPT ![c] = "hostWait"]
  /\ UNCHANGED <<inputs, options, path, routed, locals, yielded, result, sink,
                 console, hooked>>

\* The host stream yields a value.
HostChunk(c) ==
  /\ pc[c] = "hostWait"
  /\ op[c] # "complete"
  /\ tr[c].pos < Len(stream[c])
  /\ LET value == stream[c][tr[c].pos + 1]
     IN /\ tr' = [tr EXCEPT ![c] = GeneratorYield(@)]
        /\ yielded' =
             [yielded EXCEPT ![c] =
                IF op[c] = "streamComplete" THEN Append(@, value)
                ELSE Append(@, ProxyFragment(value))]
        /\ chatAcc' = IF op[c] = "chat"
                      THEN Accumulate(chatAcc, c, ProxyFragment(value).content)
                      ELSE chatAcc
  /\ pc' = [pc EXCEPT ![c] =
              IF IsStreaming(op[c]) THEN "suspended" ELSE "hostWait"]
  /\ UNCHANGED <<inputs, options, path, routed, completionOptions, log, raw,
                 prompt, completion, result, sink, console, wire>>

\* The host stream ends with { prompt, completion }.
HostDone(c) ==
  /\ pc[c] = "hostWait"
  /\ op[c] # "complete"
  /\ tr[c].pos = Len(stream[c])
  /\ ~fails[c]
  /\ tr' = [tr EXCEPT ![c] = GeneratorRelease(@)]
  /\ result' = [result EXCEPT ![c] =
                  IF op[c] = "chat"
                  THEN chatReturn(chatAcc[c])
                  ELSE Returned(HostReturn(c).prompt,
                                HostReturn(c).completion, "")]
  /\ pc' = [pc EXCEPT ![c] = "done"]
  /\ UNCHANGED <<inputs, options, path, routed, locals, yielded, sink,
                 console, wire>>

\* The host answers llmComplete with its content.
HostReply(c) ==
  /\ pc[c] = "hostWait"
  /\ op[c] = "complete"
  /\ ~fails[c]
  /\ result' = [result EXCEPT ![c] =
                  Returned(NoPrompt, HostReturn(c).completion, "")]
  /\ pc' = [pc EXCEPT ![c] = "done"]
  /\ UNCHANGED <<inputs, options, path, routed, locals, tr, yielded, sink,
                 console, wire>>

\* The host stream or request fails.
HostError(c) ==
  /\ pc[c] = "hostWait"
  /\ op[c] = "complete" \/ tr[c].pos = Len(stream[c])
  /\ fails[c]
  /\ tr' = [tr EXCEPT ![c] =
              IF op[c] = "complete" THEN @ ELSE GeneratorRelease(@)]
  /\ result' = [result EXCEPT ![c] = Thrown(ErrTransport)]
  /\ pc' = [pc EXCEPT ![c] = "failed"]
  /\ UNCHANGED <<inputs, options, path, routed, locals, yielded, sink,
                 console, wire>>

\* new SomeLLM(options)
Construct ==
  /\ llmOptions # NoLLMOptions
  /\ built = NotBuilt
  /\ built' = constructor(llmOptions)
  /\ UNCHANGED <<op, ide, llm, stream, fails, llmOptions, editor, options,
                 pc, path, routed, locals, tr, yielded, result, sink, console,
                 wire>>

\* The caller makes the call again and passes the options object of the
\* first call, as that call left it.
CallAgain ==
  /\ pc[1] \in {"done", "failed", "closed"}
  /\ pc[2] = "absent"
  /\ options' = [options EXCEPT ![2] = options[1]]
  /\ pc' = [pc EXCEPT ![2] = "init"]
  /\ UNCHANGED <<inputs, path, routed, locals, tr, yielded, result, sink,
                 console, wire>>

\* resolveEditorContent(editorState, ...)
Resolve ==
  /\ resolved = NotResolved
  /\ resolved' = resolveEditorContent(editorState)
  /\ UNCHANGED <<op, ide, llm, stream, fails, construction, editorState,
                 options, pc, path, routed, locals, tr, yielded, result, sink,
                 console, wire>>

\* A step of a call other than its consumer giving up.
Advance(c) ==
  \/ Route(c)
  \/ DirectBegin(c)
  \/ OpenTransport(c)
  \/ MissingChatTransport(c)
  \/ TransportChunk(c)
  \/ TransportDone(c)
  \/ TransportError(c)
  \/ WriteCompletionLog(c)
  \/ Pull(c)
  \/ ProxyBegin(c)
  \/ HostChunk(c)
  \/ HostDone(c)
  \/ HostReply(c)
  \/ HostError(c)

Next ==
  \E c \in CallIds :
    \/ Route(c)
    \/ DirectBegin(c)
    \/ OpenTransport(c)
    \/ MissingChatTransport(c)
    \/ TransportChunk(c)
    \/ TransportDone(c)
    \/ TransportError(c)
    \/ WriteCompletionLog(c)
    \/ Pull(c)
    \/ Cancel(c)
    \/ ProxyBegin(c)
    \/ HostChunk(c)
    \/ HostDone(c)
    \/ HostReply(c)
    \/ HostError(c)

Spec == Init /\ [][Next]_vars

SpecConcurrent == InitConcurrent /\ [][Next]_vars

\* The consumer keeps pulling: no Cancel.  The event loop runs every
\* continuation that is ready, the transport and the host deliver what they
\* have, and the consumer asks for the next fragment.
NextPulling == \E c \in CallIds : Advance(c)

SpecPulling ==
  /\ InitPulling
  /\ [][NextPulling]_vars
  /\ \A c \in CallIds : WF_vars(Advance(c))

NextSuccessive == Next \/ CallAgain

SpecSuccessive == InitSuccessive /\ [][NextSuccessive]_vars

NextConstruct == Construct

NextResolve == Resolve

SpecResolve == InitResolve /\ [][NextResolve]_vars

SpecConstruct == InitConstruct /\ [][NextConstruct]_vars

(***************************************************************************)
(* What a call has delivered, as text.                                     *)
(***************************************************************************)
Contents(c) ==
  [k \in 1..Len(yielded[c]) |->
     IF op[c] = "streamComplete" THEN yielded[c][k] ELSE yielded[c][k].content]

Emitted(c) == SubSeq(stream[c], 1, tr[c].pos)

(***************************************************************************)
(* C1: on the direct path streamComplete yields exactly the chunks its     *)
(* transport has emitted, in the transport's order, and the completion it  *)
(* returns when the stream ends is the concatenation, in order, of the     *)
(* chunks it yielded.                                                      *)
(***************************************************************************)
C1_YieldsChunksInOrder ==
  \A c \in CallIds :
    (op[c] = "streamComplete" /\ path[c] = "direct") =>
      /\ yielded[c] = Emitted(c)
      /\ pc[c] = "done" =>
           /\ yielded[c] = stream[c]
           /\ result[c].kind = "return"
           /\ result[c].completion = Flatten(yielded[c])

C1_Witness ==
  \E c \in CallIds :
    /\ op[c] = "streamComplete" /\ path[c] = "direct" /\ pc[c] = "done"
    /\ yielded[c] = <<"a", "bc">>
    /\ result[c].completion = "abc"

(***************************************************************************)
(* C2: on the direct path, once the consumer of streamComplete or          *)
(* streamChat has stopped (return() after k chunks), the cleanup of the    *)
(* transport has run exactly once, the transport has been asked for no     *)
(* chunk beyond the k delivered, and nothing changes afterwards.           *)
(***************************************************************************)
C2_Abandoned(c) ==
  IsStreaming(op[c]) /\ path[c] = "direct" /\ pc[c] = "closed"

C2_CancelReleasesTransport ==
  /\ [](\A c \in CallIds :
          C2_Abandoned(c) =>
            /\ tr[c].started = 1
            /\ tr[c].cleanups = 1
            /\ tr[c].pos = Len(yielded[c]))
  /\ [][\A c \in CallIds :
          C2_Abandoned(c) =>
            /\ pc'[c] = "closed"
            /\ tr'[c] = tr[c]
            /\ yielded'[c] = yielded[c]]_vars

C2_Witness ==
  \E c \in CallIds :
    /\ C2_Abandoned(c)
    /\ Len(yielded[c]) = 1
    /\ Len(stream[c]) = 2
    /\ tr[c].cleanups = 1

(***************************************************************************)
(* C3: on the proxied path, once the consumer of streamComplete or         *)
(* streamChat has stopped after k chunks, the cleanup of the host stream   *)
(* has run exactly once and no further chunk was pulled from it.           *)
(***************************************************************************)
C3_CancelReleasesHostStream ==
  \A c \in CallIds :
    (IsStreaming(op[c]) /\ path[c] = "proxy" /\ pc[c] = "closed") =>
      /\ tr[c].cleanups = 1
      /\ tr[c].pos = Len(yielded[c])

(***************************************************************************)
(* C4: what streamChat delivers does not depend on the path: every         *)
(* fragment it yields is the assistant-role fragment of the corresponding  *)
(* text fragment of the underlying stream, and what it returns is the      *)
(* rendered prompt with the concatenation of the fragments, whether the    *)
(* call is routed directly or through the host.                            *)
(***************************************************************************)
C4_PathsIndistinguishable ==
  \A c \in CallIds :
    (op[c] = "streamChat" /\ path[c] \in {"direct", "proxy"}) =>
      /\ \A k \in 1..Len(yielded[c]) :
           yielded[c][k] = AssistantFragment(stream[c][k])
      /\ pc[c] = "done" =>
           result[c] = Returned(ChatPrompt(llm[c]), Flatten(stream[c]), "")

(***************************************************************************)
(* C5: on the direct path, in each of complete, streamComplete, chat and   *)
(* streamChat, a call whose transport raised an error has logged that      *)
(* error and has thrown the very same error.                               *)
(***************************************************************************)
C5_TransportErrorLoggedAndRethrown ==
  \A c \in CallIds :
    (path[c] = "direct" /\ pc[c] = "failed" /\ tr[c].started > 0) =>
      /\ result[c] = Thrown(ErrTransport)
      /\ \E k \in 1..Len(console) :
           console[k] = [call |-> c, error |-> ErrTransport]

(***************************************************************************)
(* C6: a call starts its underlying stream at most once; what it has       *)
(* yielded is never withdrawn or changed, only extended; and a call that   *)
(* failed after its transport emitted k chunks has thrown once it had      *)
(* delivered exactly those k chunks, in order.                             *)
(***************************************************************************)
C6_NoRetryNoRetraction ==
  /\ [](\A c \in CallIds :
          /\ tr[c].started <= 1
          /\ (pc[c] = "failed" /\ tr[c].started = 1) =>
               /\ result[c].kind = "throw"
               /\ op[c] # "complete" => Contents(c) = Emitted(c))
  /\ [][\A c \in CallIds : IsPrefix(yielded[c], yielded'[c])]_vars

C6_Witness ==
  \E c \in CallIds :
    /\ IsStreaming(op[c]) /\ path[c] = "direct" /\ pc[c] = "failed"
    /\ tr[c].started = 1
    /\ Len(yielded[c]) = 2
    /\ result[c] = Thrown(ErrTransport)

(***************************************************************************)
(* C7: in the logging sink, under every interleaving of two calls, each    *)
(* completion entry of a call comes after a request entry of the same      *)
(* call: the request log of a call precedes its completion log, and no     *)
(* completion is logged for a call whose request was not.                  *)
(***************************************************************************)
C7_RequestLogPrecedesCompletionLog ==
  \A k \in 1..Len(sink) :
    sink[k].kind = "completion" =>
      \E j \in 1..(k - 1) :
        sink[j].call = sink[k].call /\ sink[j].kind = "request"

C7_Witness ==
  /\ Len(sink) = 4
  /\ sink[1].kind = "request" /\ sink[2].kind = "request"
  /\ sink[1].call # sink[2].call
  /\ sink[3].kind = "completion" /\ sink[4].kind = "completion"
  /\ sink[3].call = sink[2].call

(***************************************************************************)
(* C8: when two calls run at once, on the direct path the accumulated      *)
(* completion of each call is at every moment the concatenation of the     *)
(* chunks its own transport has emitted, the completion it returns is the  *)
(* concatenation of its own stream, and what each consumer has received    *)
(* are the first fragments of its own stream.                              *)
(***************************************************************************)
C8_IndependentAccumulation ==
  \A c \in CallIds :
    /\ op[c] # "complete" =>
         Contents(c) = SubSeq(stream[c], 1, Len(yielded[c]))
    /\ (path[c] = "direct" /\ tr[c].started = 1) =>
         completion[c] = Flatten(Emitted(c))
    /\ (path[c] = "direct" /\ pc[c] = "done") =>
         result[c].completion = Flatten(stream[c])

C8_Witness ==
  /\ \A c \in CallIds : path[c] = "direct" /\ pc[c] = "done"
  /\ result[1].completion = "a"
  /\ result[2].completion = "abc"
  /\ Len(sink) = 4
  /\ sink[1].kind = "request" /\ sink[2].kind = "request"

(***************************************************************************)
(* C9: a chat or streamChat call routed directly on an instance that has   *)
(* neither a chat template nor a native chat transport never yields a      *)
(* fragment and never starts a transport; it can only fail, with the       *)
(* configuration error, and once failed it stays failed.                   *)
(***************************************************************************)
C9_NoChatTransport(c) ==
  /\ IsChat(op[c]) /\ path[c] = "direct"
  /\ ~llm[c].templateMessages /\ ~llm[c].nativeChat

C9_MissingChatTransportFails ==
  /\ [](\A c \in CallIds :
          C9_NoChatTransport(c) =>
            /\ pc[c] \in {"route", "prep", "failed"}
            /\ yielded[c] = <<>>
            /\ tr[c].started = 0
            /\ pc[c] = "failed" => result[c] = Thrown(ErrConfig))
  /\ [][\A c \in CallIds :
          (C9_NoChatTransport(c) /\ pc[c] = "failed") =>
            (pc'[c] = "failed" /\ result'[c] = result[c])]_vars

C9_Witness ==
  \E c \in CallIds :
    /\ C9_NoChatTransport(c)
    /\ pc[c] = "failed"
    /\ result[c].error = ErrConfig
    /\ Len(stream[c]) > 0

(***************************************************************************)
(* The states of a call, read from where the call is in the code.          *)
(***************************************************************************)
Phase(c) ==
  CASE pc[c] = "absent" -> "NONE"
    [] pc[c] = "init" -> "INIT"
    [] pc[c] = "route" -> "ROUTE"
    [] pc[c] \in {"prep", "transportWait"} -> "DIRECT_STREAM"
    [] pc[c] = "hostWait" -> "PROXY_STREAM"
    [] pc[c] = "suspended" ->
         IF path[c] = "direct" THEN "DIRECT_STREAM" ELSE "PROXY_STREAM"
    [] pc[c] = "logging" -> "LOGGING"
    [] pc[c] = "done" -> "DONE"
    [] pc[c] = "failed" -> "FAILED"
    [] pc[c] = "closed" -> "ABANDONED"

RoutedOnce(c) ==
  /\ routed[c] <= 1
  /\ Phase(c) \in {"ROUTE", "DIRECT_STREAM", "PROXY_STREAM", "LOGGING",
                   "DONE", "FAILED"} => routed[c] = 1
  /\ Phase(c) = "INIT" =>
       /\ routed[c] = 0 /\ path[c] = "none" /\ tr[c] = NoTransport
       /\ yielded[c] = <<>> /\ result[c] = NoResult
       /\ \A k \in 1..Len(sink) : sink[k].call # c

(***************************************************************************)
(* C10, as stated: every step of a call follows INIT -> ROUTE ->           *)
(* (DIRECT_STREAM or PROXY_STREAM) -> LOGGING -> DONE, or enters FAILED    *)
(* from a non-terminal state on a transport error; routing is decided      *)
(* exactly once, before any other step.  A call the consumer abandons is   *)
(* left out of the statement.                                              *)
(***************************************************************************)
C10_StatedEdges ==
  {<<"INIT", "ROUTE">>, <<"ROUTE", "DIRECT_STREAM">>,
   <<"ROUTE", "PROXY_STREAM">>, <<"DIRECT_STREAM", "LOGGING">>,
   <<"PROXY_STREAM", "LOGGING">>, <<"LOGGING", "DONE">>}

C10_Edges ==
  {<<"INIT", "ROUTE">>, <<"ROUTE", "DIRECT_STREAM">>,
   <<"ROUTE", "PROXY_STREAM">>, <<"DIRECT_STREAM", "LOGGING">>,
   <<"PROXY_STREAM", "DONE">>, <<"LOGGING", "DONE">>,
   <<"INIT", "ABANDONED">>, <<"DIRECT_STREAM", "ABANDONED">>,
   <<"PROXY_STREAM", "ABANDONED">>}

C11_ChatDrainsStreamChat ==
  \A c \in CallIds :
    op[c] = "chat" =>
      /\ result[c].kind = "return" =>
           /\ pc[c] = "done"
           /\ tr[c].pos = Len(stream[c]) /\ tr[c].cleanups = 1
           /\ Len(yielded[c]) = Len(stream[c])
           /\ result[c].role = "assistant"
           /\ result[c].completion = Flatten(Contents(c))
      /\ pc[c] = "done" => result[c].kind = "return"
      /\ pc[c] = "failed" =>
           result[c] \in {Thrown(ErrTransport), Thrown(ErrConfig)}

C11_Witness ==
  \E c \in CallIds :
    /\ op[c] = "chat" /\ pc[c] = "done" /\ path[c] = "proxy"
    /\ Len(yielded[c]) = 2
    /\ result[c].role = "assistant" /\ result[c].completion = "abc"

(***************************************************************************)
(* C12: a direct complete or streamComplete cuts the prompt to the budget, *)
(* then renders it, then starts the transport: what the transport is       *)
(* handed is the caller's prompt cut in its raw form and, unless the raw   *)
(* flag is set or the instance has no template, rendered by the template   *)
(* as one user message, preceded by the system message when the instance   *)
(* has one.  Nothing is handed over before the transport is started.       *)
(***************************************************************************)
C12_Direct(c) == op[c] \in {"complete", "streamComplete"} /\ path[c] = "direct"

C12_Rendered(l, isRaw) ==
  [src |-> "prompt", pruned |-> "raw",
   form |-> IF isRaw \/ ~l.templateMessages THEN "raw" ELSE "templated",
   sys |-> ~isRaw /\ l.templateMessages /\ l.systemMessage]

C12_PruneTemplateTransport ==
  /\ [](\A c \in CallIds :
          C12_Direct(c) =>
            /\ tr[c].started = 0 => handed[c] = NotHanded
            /\ tr[c].started > 0 =>
                 /\ handed[c].to = "streamComplete"
                 /\ handed[c].prompt = C12_Rendered(llm[c], raw[c]))
  /\ [][\A c \in CallIds :
          (C12_Direct(c) /\ pc[c] = "route" /\ pc'[c] = "prep") =>
            raw'[c] = (options[c].raw = "true")]_vars

C12_Witness ==
  \E c \in CallIds :
    /\ C12_Direct(c) /\ tr[c].started = 1 /\ ~raw[c]
    /\ llm[c].templateMessages /\ llm[c].systemMessage
    /\ handed[c].prompt =
         [src |-> "prompt", pruned |-> "raw", form |-> "templated",
          sys |-> TRUE]

(***************************************************************************)
(* C13: a proxied complete, streamComplete or streamChat hands the host    *)
(* the caller's prompt or messages, neither cut nor rendered, and the      *)
(* caller's options object as it was given; it starts no provider          *)
(* transport, writes nothing to the logging sink and never invokes the     *)
(* request hook; what it yields carries the values of the host, unchanged  *)
(* and in order; and it ends with the terminal value of the host.          *)
(***************************************************************************)
C13_Proxied(c) ==
  op[c] \in {"complete", "streamComplete", "streamChat"} /\ path[c] = "proxy"

C13_ProxyForwardsAndRelays ==
  /\ [](\A c \in CallIds :
          C13_Proxied(c) =>
            /\ tr[c].kind \in {"none", "host"}
            /\ \A k \in 1..Len(sink) : sink[k].call # c
            /\ \A k \in 1..Len(hooked) : hooked[k].call # c
            /\ pc[c] # "route" =>
                 /\ handed[c].to = "host"
                 /\ handed[c].options = options[c]
                 /\ handed[c].prompt.src =
                      IF op[c] = "streamChat" THEN "messages" ELSE "prompt"
                 /\ handed[c].prompt.pruned = "no"
                 /\ handed[c].prompt.form \in {"raw", "structured"}
            /\ op[c] # "complete" => Contents(c) = Emitted(c)
            /\ pc[c] = "done" =>
                 /\ result[c].kind = "return"
                 /\ result[c].completion = HostReturn(c).completion
                 /\ op[c] # "complete" =>
                      result[c].prompt = HostReturn(c).prompt)
  /\ [][\A c \in CallIds :
          (pc[c] = "init" \/ C13_Proxied(c)) => options'[c] = options[c]]_vars

C13_Witness ==
  \E c \in CallIds :
    /\ op[c] = "streamChat" /\ path[c] = "proxy" /\ pc[c] = "done"
    /\ handed[c].options.log = "false" /\ handed[c].options.raw = "true"
    /\ handed[c].prompt = UserMessages
    /\ Contents(c) = <<"a", "bc">>
    /\ result[c].completion = "abc"

(***************************************************************************)
(* C14: in a direct complete or streamComplete that does not disable       *)
(* logging, once the prompt is prepared and before the transport is        *)
(* started the logging sink of the instance, when it has one, holds one    *)
(* request entry of the call with the rendered prompt and the merged       *)
(* options, and the request hook, when the instance has one, has been      *)
(* invoked once, with the model in force (the caller's when the call names *)
(* one, else the instance's) and that same prompt, which is also what the  *)
(* transport is handed; the completion entry is written only after the     *)
(* transport is drained and holds the whole response.  In a call with log  *)
(* set to false nothing is written to the sink and the hook is never       *)
(* invoked.                                                                *)
(***************************************************************************)
C14_Logged(c, kind) ==
  {k \in 1..Len(sink) : sink[k].call = c /\ sink[k].kind = kind}

C14_Hooked(c) == {k \in 1..Len(hooked) : hooked[k].call = c}

C14_ModelInForce(c) ==
  IF options[c].model # "undef" THEN options[c].model
  ELSE llm[c].completionOptions.model

C14_LoggingAroundTransport ==
  /\ [](\A c \in CallIds :
          C12_Direct(c) =>
            /\ pc[c] = "route" =>
                 /\ C14_Logged(c, "request") = {}
                 /\ C14_Hooked(c) = {}
            /\ (pc[c] # "route" /\ log[c]) =>
                 /\ llm[c].writeLog =>
                      /\ Cardinality(C14_Logged(c, "request")) = 1
                      /\ \A k \in C14_Logged(c, "request") :
                           /\ sink[k].prompt = prompt[c]
                           /\ sink[k].options = [model |-> C14_ModelInForce(c)]
                 /\ llm[c].llmRequestHook =>
                      /\ Cardinality(C14_Hooked(c)) = 1
                      /\ \A k \in C14_Hooked(c) :
                           /\ hooked[k].model = C14_ModelInForce(c)
                           /\ hooked[k].prompt = prompt[c]
                           /\ tr[c].started > 0 =>
                                handed[c].prompt = hooked[k].prompt
                 /\ \A k \in C14_Logged(c, "completion") :
                      /\ tr[c].pos = Len(stream[c]) /\ tr[c].cleanups = 1
                      /\ sink[k].text = Flatten(stream[c])
                      /\ \A j \in C14_Logged(c, "request") : j < k
                 /\ (pc[c] = "done" /\ llm[c].writeLog) =>
                      Cardinality(C14_Logged(c, "completion")) = 1
            /\ (pc[c] # "route" /\ ~log[c]) =>
                 /\ \A k \in 1..Len(sink) : sink[k].call # c
                 /\ C14_Hooked(c) = {})
  /\ [][\A c \in CallIds :
          (C12_Direct(c) /\ pc[c] = "route" /\ pc'[c] = "prep") =>
            log'[c] = (options[c].log # "false")]_vars

C14_Witness ==
  \E c \in CallIds :
    /\ op[c] = "streamComplete" /\ path[c] = "direct" /\ pc[c] = "done"
    /\ log[c] /\ llm[c].writeLog /\ llm[c].llmRequestHook
    /\ llm[c].templateMessages /\ ~raw[c]
    /\ hooked = <<[call |-> c, model |-> OtherModel, prompt |-> prompt[c]]>>
    /\ Len(sink) = 2 /\ sink[2].text = "abc"

(***************************************************************************)
(* C15: no step of any call, whether the call finishes, fails or is        *)
(* abandoned, changes a field of the instance it runs on: the template     *)
(* function, the system message, the hooks and the default completion      *)
(* options, model included, stay as they were constructed.                 *)
(***************************************************************************)
C15_InstanceUnchanged == [][\A c \in CallIds : llm'[c] = llm[c]]_vars

C15_Witness ==
  \E c \in CallIds :
    /\ path[c] = "direct" /\ pc[c] \in {"done", "failed", "closed"}
    /\ completionOptions[c].model = OtherModel
    /\ llm[c].completionOptions.model = InstanceModel
    /\ tr[c].pos = 1

(***************************************************************************)
(* Constructed instances.                                                  *)
(***************************************************************************)
Constructed == built # NotBuilt

\* The family the constructor works with: the explicit one, else the
\* detected one.
FamilyOf(o) == IF o.template # undefined THEN o.template
               ELSE autodetectTemplateType(o.model)

ConstructedPlain ==
  /\ Constructed
  /\ llmOptions.templateMessages = undefined
  /\ llmOptions.promptTemplates = NoTemplates

(***************************************************************************)
(* C16: the base URL an instance stores does not end in a slash: a given   *)
(* URL that ends in a slash is stored without that slash, any other as it  *)
(* is.                                                                     *)
(***************************************************************************)
C16_NoTrailingSlash ==
  (Constructed /\ llmOptions.apiBase # undefined) =>
    /\ ~endsWith(built.apiBase, "/")
    /\ IF endsWith(llmOptions.apiBase, "/")
       THEN built.apiBase \o "/" = llmOptions.apiBase
       ELSE built.apiBase = llmOptions.apiBase

(***************************************************************************)
(* C17: without custom prompt templates, the prompt templates of an        *)
(* instance hold an "edit" entry whenever its template family, explicit or *)
(* detected, is a family other than "none", and hold no entry when the     *)
(* family is "none" or no family was detected.                             *)
(***************************************************************************)
C17_EditTemplateTotal ==
  ConstructedPlain =>
    IF FamilyOf(llmOptions) \in {"none", undefined}
    THEN built.promptTemplates = NoTemplates
    ELSE "edit" \in DOMAIN built.promptTemplates

(***************************************************************************)
(* C18: without a custom template function, the template function of an    *)
(* instance is null when no template is given explicitly and the provider  *)
(* is one of lmstudio, openai, ollama, together; otherwise it is the entry *)
(* of the table for the explicit family if one is given, else for the      *)
(* detected one, and it is null exactly when that family is "none" or no   *)
(* family was detected.                                                    *)
(***************************************************************************)
C18_ChatTemplateResolution ==
  (Constructed /\ llmOptions.templateMessages = undefined) =>
    IF /\ llmOptions.template = undefined
       /\ llmOptions.providerName \in {"lmstudio", "openai", "ollama",
                                       "together"}
    THEN built.templateMessages = null
    ELSE LET family == FamilyOf(llmOptions)
         IN /\ family \in {"none", undefined} <=> built.templateMessages = null
            /\ family \in TemplateTypes =>
                 built.templateMessages = mapping[family]

C18_Witness ==
  /\ Constructed
  /\ llmOptions.providerName = "openai" /\ llmOptions.template = "zephyr"
  /\ llmOptions.model = "codellama-70b"
  /\ built.templateMessages = "zephyrTemplateMessages"

(***************************************************************************)
(* C19, as stated: the family detected for a model name is a value of the  *)
(* TemplateType enumeration.                                               *)
(***************************************************************************)
C19_Detected == Constructed /\ llmOptions.template = undefined

C19_Markers ==
  {"gpt", "chat-bison", "pplx", "gemini", "llava", "xwin", "dolphin", "phi2",
   "phind", "llama", "zephyr", "claude", "alpaca", "wizard", "mistral",
   "deepseek", "ninja", "openchat", "neural-chat"}

C20_SelfTemplatedWins ==
  C19_Detected =>
    LET lower == toLowerCase(llmOptions.model)
    IN (\E marker \in {"gpt", "chat-bison", "pplx", "gemini"} :
          includes(lower, marker)) =>
         built.templateType = undefined

(***************************************************************************)
(* C21: when the stream under a call is finite and its consumer keeps      *)
(* pulling, every call of complete, streamComplete, chat and streamChat    *)
(* that was made ends: it returns or it throws.                            *)
(***************************************************************************)
C21_EveryCallEnds ==
  \A c \in CallIds : (pc[c] = "init") ~> (pc[c] \in {"done", "failed"})

C21_Witness ==
  \E c \in CallIds :
    /\ op[c] = "streamChat" /\ path[c] = "direct" /\ pc[c] = "done"
    /\ Len(yielded[c]) = MaxChunks
    /\ result[c].kind = "return"

(***************************************************************************)
(* C22: a call routed directly never changes the options object it was     *)
(* given, and when the call is made again with the same options object the *)
(* second call runs with the raw and log flags of the first.               *)
(***************************************************************************)
C22_Parsed(c) ==
  path[c] = "direct" /\ pc[c] \notin {"absent", "init", "route"}

C22_OptionsObjectUnchanged ==
  /\ [][\A c \in CallIds :
          path[c] = "direct" => options'[c] = options[c]]_vars
  /\ []((C22_Parsed(1) /\ C22_Parsed(2)) =>
          (raw[2] = raw[1] /\ log[2] = log[1]))

(***************************************************************************)
(* C23: for an editor content that holds a slash command,                  *)
(* resolveEditorContent returns, and the last text part of what it returns *)
(* begins with the id of the first slash command of the content, in        *)
(* document order, and a space.                                            *)
(***************************************************************************)
RECURSIVE C23_SlashCommands(_)
C23_SlashCommands(content) ==
  IF content = <<>> THEN <<>>
  ELSE LET IsSlash(child) == child.type = "slashcommand"
       IN SelectSeq(Head(content).content, IsSlash)
            \o C23_SlashCommands(Tail(content))

C23_StartsWith(str, prefix) ==
  Len(prefix) <= Len(str) /\ SubSeq(str, 1, Len(prefix)) = prefix

C23_SlashCommandInFront ==
  (resolved # NotResolved /\ C23_SlashCommands(editorState) # <<>>) =>
    /\ resolved.kind = "return"
    /\ \E i \in 1..Len(resolved.parts) :
         /\ resolved.parts[i].type = "text"
         /\ \A j \in (i + 1)..Len(resolved.parts) :
              resolved.parts[j].type # "text"
         /\ C23_StartsWith(resolved.parts[i].text,
                           C23_SlashCommands(editorState)[1].id \o " ")

====
